---- MODULE Spec2Model ----
(***************************************************************************)
(* Model of packit_service/worker/handlers/github_handlers.py: the job     *)
(* handlers GithubAppInstallationHandler, ProposeDownstreamHandler,        *)
(* CoprBuildHandler and KojiBuildHandler.  One behaviour follows one unit  *)
(* of work (one handler instance, re-dispatched by the task queue when the *)
(* handler asks for a retry).                                              *)
(*                                                                         *)
(* Text is modelled as sequences: a branch name is the sequence of its     *)
(* code points (so that sorted() can compare names as Python does), an     *)
(* error text is a sequence of one-character strings (so that the          *)
(* substring test and str.replace work on characters), and an f-string is  *)
(* the sequence of its pieces.                                             *)
(***************************************************************************)
EXTENDS Integers, Sequences, FiniteSets, TLC

VARIABLES
    handler,            \* which handler class this unit of work runs
    pc,                 \* position of the unit of work
    issues,             \* project.create_issue calls, in order
    outcome,            \* <<>> or <<TaskResults>> returned by run()
    raised,             \* exception that left the handler, "none" if none
    installation,       \* InstallationEvent of GithubAppInstallationHandler
    installations,      \* number of InstallationModel.create calls
    add_account_calls,  \* whitelist.add_account calls and their results
    dist_git_branches,  \* job_config.metadata.dist_git_branches
    tag_name,           \* data.tag_name
    todo,               \* branches the for loop has not reached yet
    errors,             \* the errors dict, as its items in insertion order
    retries,            \* task.request.retries
    scheduled,          \* task.retry calls, in order
    sentry,             \* sentry_integration.send_to_sentry calls, in order
    calls,              \* api.sync_release calls of the current attempt
    earlier,            \* calls of earlier attempts: successes and recorded errors
    event_type,         \* data.event_type
    user_login,         \* data.user_login
    admins,             \* service_config.admins
    mergers,            \* users for which project.can_merge_pr is true
    job_config,         \* the handler's job_config
    jobs,               \* package_config.jobs
    helper,             \* _copr_build_helper / _koji_build_helper
    helper_built,       \* number of helper constructions
    statuses,           \* report_status_to_all calls, in order
    queries,            \* project.can_merge_pr calls, in order
    builds,             \* number of run_copr_build / run_koji_build calls
    backend_returned,   \* what run_copr_build / run_koji_build returned
    accesses,           \* reads of copr_build_helper / koji_build_helper
    responses,          \* what sync_release answers per branch, when fixed
    first_run           \* issues, Outcome and exception of a run that is repeated

vars == <<handler, pc, issues, outcome, raised, installation, installations,
          add_account_calls,
          dist_git_branches, tag_name, todo, errors, retries, scheduled,
          sentry, calls, earlier, event_type, user_login, admins, mergers, job_config,
          jobs, helper, helper_built, statuses, queries, builds,
          backend_returned, accesses, responses, first_run>>

rerunVars == <<responses, first_run>>
installVars == <<installation, installations, add_account_calls>>
proposeVars == <<dist_git_branches, tag_name, todo, errors, retries,
                 scheduled, sentry, calls, earlier>>
buildVars == <<event_type, user_login, admins, mergers, job_config, jobs,
               helper, helper_built, statuses, queries, builds,
               backend_returned, accesses>>

----------------------------------------------------------------------------
(* Bounds of the model *)

MaxBranches == 3
MaxJobs == 2
MaxFairBranches == 2
MaxHistBranches == 2
MaxAccesses == 1

(* Constants of the program *)

RETRY_LIMIT == 2
BASE_DELAY == 15

FILE_DOWNLOAD_FAILURE == <<"F", "D">>
PERMISSIONS_ERROR_WRITE_OR_ADMIN == "PERMISSIONS_ERROR_WRITE_OR_ADMIN"
FAQ_URL_HOW_TO_RETRIGGER == "FAQ_URL_HOW_TO_RETRIGGER"
MSG_RETRIGGER == "MSG_RETRIGGER(update, propose-update, issue)"
NoUrl == ""

PullRequestGithubEvent == "PullRequestGithubEvent"
MergeRequestGitlabEvent == "MergeRequestGitlabEvent"
PushGitHubEvent == "PushGitHubEvent"
ReleaseEvent == "ReleaseEvent"
IssueCommentEvent == "IssueCommentEvent"
EventTypes == {PullRequestGithubEvent, MergeRequestGitlabEvent,
               PushGitHubEvent, ReleaseEvent, IssueCommentEvent}

JobTypes == {"tests", "copr_build", "build", "production_build"}
JobTriggers == {"pull_request", "release"}
JobPool == [type : JobTypes, trigger : JobTriggers]

Users == {"alice", "bob"}
None == "None"

(* Branch names "f3", "f34", "f4", "el8" and the default "master" *)
BranchPool == {<<102, 51>>, <<102, 51, 52>>, <<102, 52>>, <<101, 108, 56>>}
master == <<109, 97, 115, 116, 101, 114>>
Tags == {"0.1.0"}

(* Texts of the exceptions api.sync_release raises: one that contains        *)
(* FILE_DOWNLOAD_FAILURE, and one with its characters split by a newline     *)
ErrorPool == {<<"a", "F", "D">>, <<"F", "\n", "D">>}
SyncResults == {[ok |-> TRUE, msg |-> <<>>]}
               \cup {[ok |-> FALSE, msg |-> m] : m \in ErrorPool}

----------------------------------------------------------------------------
(* Pure helpers *)

\* Python's `sub in s` on strings
Contains(s, sub) ==
    \E i \in 0..(Len(s) - Len(sub)) : SubSeq(s, i + 1, i + Len(sub)) = sub

\* err.replace("\n", " ")
ReplaceNewlines(s) == [i \in 1..Len(s) |-> IF s[i] = "\n" THEN " " ELSE s[i]]

\* Python's < on strings: code point order, a proper prefix is smaller
RECURSIVE StrLess(_, _)
StrLess(a, b) ==
    IF b = <<>> THEN FALSE
    ELSE IF a = <<>> THEN TRUE
    ELSE IF a[1] # b[1] THEN a[1] < b[1]
    ELSE StrLess(Tail(a), Tail(b))

\* errors[branch] = text on a dict kept as its items in insertion order
DictSet(d, k, v) ==
    IF \E i \in 1..Len(d) : d[i][1] = k
    THEN [i \in 1..Len(d) |-> IF d[i][1] = k THEN <<k, v>> ELSE d[i]]
    ELSE Append(d, <<k, v>>)

\* stable insertion of one item into a list sorted by key
RECURSIVE InsertByKey(_, _)
InsertByKey(item, s) ==
    IF s = <<>> THEN <<item>>
    ELSE IF StrLess(item[1], s[1][1]) THEN <<item>> \o s
    ELSE <<s[1]>> \o InsertByKey(item, Tail(s))

\* mutant: the items are not sorted
SortedItems_M(d) == d

\* sorted(errors.items(), key=lambda branch_error: branch_error[0])
RECURSIVE SortedItems(_)
SortedItems(d) ==
    IF d = <<>> THEN <<>>
    ELSE InsertByKey(d[Len(d)], SortedItems(SubSeq(d, 1, Len(d) - 1)))

\* get_branches(*dist_git_branches, default="master")
get_branches(bs) == IF bs = {} THEN {master} ELSE bs

\* mutant: the rows follow errors.items() as it is
BranchErrors_M(d) == [i \in 1..Len(d) |-> <<d[i][1], ReplaceNewlines(d[i][2])>>]

\* the rows of branch_errors
BranchErrors(d) ==
    LET s == SortedItems(d)
    IN [i \in 1..Len(s) |-> <<s[i][1], ReplaceNewlines(s[i][2])>>]

Details(keys, msg, errs) == [keys |-> keys, msg |-> msg, errors |-> errs]
TaskResults(success, details) == [success |-> success, details |-> details]
EmptyDetails == Details({}, <<>>, <<>>)

----------------------------------------------------------------------------
(* Initial states: one handler instance with its inputs; the variables of  *)
(* the other handlers stay at fixed values.                                *)

AccountTypes == {"Organization", "User"}
AccountLogins == {"acme", "jdoe"}

IdleCommon ==
    /\ issues = <<>>
    /\ outcome = <<>>
    /\ raised = "none"
    /\ responses = <<>>
    /\ first_run = <<>>

IdleInstall ==
    /\ installation = [account_type |-> "Organization",
                       account_login |-> "acme", sender_login |-> "alice"]
    /\ installations = 0
    /\ add_account_calls = <<>>

IdlePropose ==
    /\ dist_git_branches = {}
    /\ tag_name = "0.1.0"
    /\ todo = {}
    /\ errors = <<>>
    /\ retries = 0
    /\ scheduled = <<>>
    /\ sentry = <<>>
    /\ calls = <<>>
    /\ earlier = {}

IdleBuild ==
    /\ event_type = PushGitHubEvent
    /\ user_login = "alice"
    /\ admins = {}
    /\ mergers = {}
    /\ job_config = [type |-> "copr_build", trigger |-> "pull_request"]
    /\ jobs = {[type |-> "copr_build", trigger |-> "pull_request"]}
    /\ helper = None
    /\ helper_built = 0
    /\ statuses = <<>>
    /\ queries = <<>>
    /\ builds = 0
    /\ backend_returned = <<>>
    /\ accesses = 0

InitInstallation ==
    /\ handler = "installation"
    /\ pc = "ready"
    /\ IdleCommon /\ IdlePropose /\ IdleBuild
    /\ installation \in [account_type : AccountTypes,
                         account_login : AccountLogins,
                         sender_login : Users]
    /\ installations = 0
    /\ add_account_calls = <<>>

InitPropose ==
    /\ handler = "propose"
    /\ pc = "Pending"
    /\ IdleCommon /\ IdleInstall /\ IdleBuild
    /\ dist_git_branches \in
           {bs \in SUBSET BranchPool : Cardinality(bs) <= MaxBranches}
    /\ tag_name \in Tags
    /\ todo = {}
    /\ errors = <<>>
    /\ retries = 0
    /\ scheduled = <<>>
    /\ sentry = <<>>
    /\ calls = <<>>
    /\ earlier = {}

InitBuild ==
    /\ handler \in {"copr", "koji"}
    /\ pc = "new"
    /\ IdleCommon /\ IdleInstall /\ IdlePropose
    /\ event_type \in EventTypes
    /\ user_login \in Users
    /\ admins \in SUBSET Users
    /\ mergers \in SUBSET Users
    /\ jobs \in {js \in SUBSET JobPool : js # {} /\ Cardinality(js) <= MaxJobs}
    /\ job_config \in jobs
    /\ helper = None
    /\ helper_built = 0
    /\ statuses = <<>>
    /\ queries = <<>>
    /\ builds = 0
    /\ backend_returned = <<>>
    /\ accesses = 0

Init == InitInstallation \/ InitPropose \/ InitBuild

----------------------------------------------------------------------------
(* GithubAppInstallationHandler *)

\* mutant: the title names the sender instead of the account
InstallationIssue_M(ev) ==
    [title |-> <<ev.account_type, " ", ev.sender_login,
                 " needs to be approved.">>,
     body |-> [text |-> <<"Hi @", ev.sender_login,
                          ", we need to approve you in order to start using Packit-as-a-Service.">>,
               rows |-> <<>>]]

InstallationIssue(ev) ==
    [title |-> <<ev.account_type, " ", ev.account_login,
                 " needs to be approved.">>,
     body |-> [text |-> <<"Hi @", ev.sender_login,
                          ", we need to approve you in order to start using Packit-as-a-Service.">>,
               rows |-> <<>>]]

InstallationMsg(ev, added) ==
    IF ~added
    THEN <<ev.account_type, " ", ev.account_login,
           " needs to be approved manually!">>
    ELSE <<ev.account_type, " ", ev.account_login, " whitelisted!">>

\* run(): whitelist.add_account answers `added`
InstallationRun ==
    /\ handler = "installation"
    /\ pc = "ready"
    /\ \E added \in BOOLEAN :
        /\ installations' = installations + 1
        /\ add_account_calls' =
               Append(add_account_calls,
                      [account |-> installation.account_login,
                       sender |-> installation.sender_login,
                       result |-> added])
        /\ issues' = IF ~added
                     THEN Append(issues, InstallationIssue(installation))
                     ELSE issues
        /\ outcome' = <<TaskResults(TRUE,
                          Details({"msg"},
                                  InstallationMsg(installation, added),
                                  <<>>))>>
    /\ pc' = "done"
    /\ UNCHANGED <<handler, rerunVars, raised, installation, proposeVars, buildVars>>

----------------------------------------------------------------------------
(* ProposeDownstreamHandler *)

\* mutant: looks for the first character of FILE_DOWNLOAD_FAILURE only
IsDownloadFailure_M(msg) == Contains(msg, <<FILE_DOWNLOAD_FAILURE[1]>>)

\* FILE_DOWNLOAD_FAILURE in str(ex)
IsDownloadFailure(msg) == Contains(msg, FILE_DOWNLOAD_FAILURE)

\* mutant: off by one, retries once more at the limit
RetryAllowed_M(k) == k <= RETRY_LIMIT

\* retries < RETRY_LIMIT
RetryAllowed(k) == k < RETRY_LIMIT

\* mutant: linear instead of exponential backoff
Countdown_M(k) == BASE_DELAY * 2 * k

\* countdown=15 * 2 ** retries
Countdown(k) == BASE_DELAY * 2 ^ k

\* mutant: the error is not reported
send_to_sentry_M(sink, msg) == sink

\* sentry_integration.send_to_sentry(ex)
send_to_sentry(sink, msg) == Append(sink, msg)

\* the unit of work is picked up by a worker: run() up to the for loop
ProposeStart ==
    /\ handler = "propose"
    /\ pc = "Pending"
    /\ pc' = "Running"
    /\ errors' = <<>>
    /\ todo' = get_branches(dist_git_branches)
    /\ calls' = <<>>
    /\ UNCHANGED <<handler, rerunVars, issues, outcome, raised, installVars,
                   dist_git_branches, tag_name, retries, scheduled, sentry,
                   earlier, buildVars>>

\* mutant: a recorded failure leaves the for loop
SyncBranch_M(branch, res) ==
    /\ calls' = Append(calls, [branch |-> branch, res |-> res])
    /\ IF res.ok
       THEN /\ todo' = todo \ {branch}
            /\ UNCHANGED <<pc, raised, scheduled, sentry, errors>>
       ELSE IF IsDownloadFailure(res.msg) /\ RetryAllowed(retries)
            THEN /\ todo' = todo \ {branch}
                 /\ scheduled' = Append(scheduled,
                                        [exc |-> res.msg,
                                         countdown |-> Countdown(retries)])
                 /\ raised' = "Retry"
                 /\ pc' = "AwaitingRetry"
                 /\ UNCHANGED <<sentry, errors>>
            ELSE /\ todo' = {}
                 /\ sentry' = send_to_sentry(sentry, res.msg)
                 /\ errors' = DictSet(errors, branch, res.msg)
                 /\ UNCHANGED <<pc, raised, scheduled>>

\* mutant: task.retry does not raise, run() goes on after scheduling
SyncBranch_NoThrow(branch, res) ==
    /\ calls' = Append(calls, [branch |-> branch, res |-> res])
    /\ todo' = todo \ {branch}
    /\ IF res.ok
       THEN UNCHANGED <<pc, raised, scheduled, sentry, errors>>
       ELSE /\ scheduled' =
                  IF IsDownloadFailure(res.msg) /\ RetryAllowed(retries)
                  THEN Append(scheduled, [exc |-> res.msg,
                                          countdown |-> Countdown(retries)])
                  ELSE scheduled
            /\ sentry' = send_to_sentry(sentry, res.msg)
            /\ errors' = DictSet(errors, branch, res.msg)
            /\ UNCHANGED <<pc, raised>>

\* mutant: a download failure is tried once more inside the loop
SyncBranch_InProcess(branch, res) ==
    /\ calls' = Append(calls, [branch |-> branch, res |-> res])
    /\ IF res.ok
       THEN /\ todo' = todo \ {branch}
            /\ UNCHANGED <<pc, raised, scheduled, sentry, errors>>
       ELSE IF /\ IsDownloadFailure(res.msg)
               /\ \A i \in 1..Len(calls) : calls[i].branch # branch
            THEN /\ todo' = todo
                 /\ UNCHANGED <<pc, raised, scheduled, sentry, errors>>
            ELSE /\ todo' = todo \ {branch}
                 /\ sentry' = send_to_sentry(sentry, res.msg)
                 /\ errors' = DictSet(errors, branch, res.msg)
                 /\ UNCHANGED <<pc, raised, scheduled>>

\* one iteration of the for loop: sync_release on `branch` answers `res`
SyncBranch(branch, res) ==
    /\ calls' = Append(calls, [branch |-> branch, res |-> res])
    /\ todo' = todo \ {branch}
    /\ IF res.ok
       THEN UNCHANGED <<pc, raised, scheduled, sentry, errors>>
       ELSE IF IsDownloadFailure(res.msg) /\ RetryAllowed(retries)
            THEN \* task.retry raises celery's Retry: run() ends here
                 /\ scheduled' = Append(scheduled,
                                        [exc |-> res.msg,
                                         countdown |-> Countdown(retries)])
                 /\ raised' = "Retry"
                 /\ pc' = "AwaitingRetry"
                 /\ UNCHANGED <<sentry, errors>>
            ELSE /\ sentry' = send_to_sentry(sentry, res.msg)
                 /\ errors' = DictSet(errors, branch, res.msg)
                 /\ UNCHANGED <<pc, raised, scheduled>>

ProposeLoop ==
    /\ handler = "propose"
    /\ pc = "Running"
    /\ todo # {}
    /\ \E branch \in todo : \E res \in SyncResults : SyncBranch(branch, res)
    /\ UNCHANGED <<handler, rerunVars, issues, outcome, installVars, dist_git_branches,
                   tag_name, retries, earlier, buildVars>>

ProposeIssue(tag, errs) ==
    [title |-> <<"[packit] Propose update failed for release ", tag>>,
     body |-> [text |-> <<"Packit failed on creating pull-requests in dist-git:",
                          MSG_RETRIGGER>>,
               rows |-> BranchErrors(errs)]]

\* the code after the for loop
ProposeAggregate ==
    /\ handler = "propose"
    /\ pc = "Running"
    /\ todo = {}
    /\ IF errors # <<>>
       THEN /\ issues' = Append(issues, ProposeIssue(tag_name, errors))
            /\ outcome' = <<TaskResults(FALSE,
                              Details({"msg", "errors"},
                                      <<"Propose update failed.">>, errors))>>
            /\ pc' = "Failed"
       ELSE /\ issues' = issues
            /\ outcome' = <<TaskResults(TRUE, EmptyDetails)>>
            /\ pc' = "Succeeded"
    /\ UNCHANGED <<handler, rerunVars, raised, installVars, proposeVars, buildVars>>

\* the calls of an attempt that succeeded or left an entry in its error map
Settled(cs, errs) ==
    {cs[i] : i \in {j \in 1..Len(cs) :
                      \/ cs[j].res.ok
                      \/ \E k \in 1..Len(errs) :
                            errs[k] = <<cs[j].branch, cs[j].res.msg>>}}

\* a re-dispatch was scheduled by task.retry and has not been delivered yet
RetryPending == Len(scheduled) > retries

\* mutant: the retried run() starts with the error map of the attempt before
Redispatch_KeepErrors ==
    /\ handler = "propose"
    /\ RetryPending
    /\ retries' = retries + 1
    /\ raised' = "none"
    /\ pc' = "Running"
    /\ errors' = errors
    /\ todo' = get_branches(dist_git_branches)
    /\ calls' = <<>>
    /\ UNCHANGED <<handler, rerunVars, issues, outcome, installVars, dist_git_branches,
                   tag_name, scheduled, sentry, buildVars>>

\* mutant: the retried run() resumes with the branches not yet called
Redispatch_Resume ==
    /\ handler = "propose"
    /\ RetryPending
    /\ retries' = retries + 1
    /\ raised' = "none"
    /\ pc' = "Running"
    /\ errors' = <<>>
    /\ todo' = todo \cup {calls[Len(calls)].branch}
    /\ calls' = <<>>
    /\ UNCHANGED <<handler, rerunVars, issues, outcome, installVars, dist_git_branches,
                   tag_name, scheduled, sentry, buildVars>>

\* the task queue runs the retried task: a new handler, run() from the top
Redispatch ==
    /\ handler = "propose"
    /\ RetryPending
    /\ retries' = retries + 1
    /\ raised' = "none"
    /\ pc' = "Running"
    /\ errors' = <<>>
    /\ todo' = get_branches(dist_git_branches)
    /\ calls' = <<>>
    /\ UNCHANGED <<handler, rerunVars, issues, outcome, installVars, dist_git_branches,
                   tag_name, scheduled, sentry, buildVars>>

\* the re-dispatch, with no record of the attempt it replaces
ProposeRedispatch ==
    /\ Redispatch
    /\ earlier' = earlier

\* the re-dispatch, with the attempt it replaces kept in `earlier`
ProposeRedispatchRecorded ==
    /\ Redispatch
    /\ earlier' = earlier \cup Settled(calls, errors)

----------------------------------------------------------------------------
(* CoprBuildHandler and KojiBuildHandler *)

CommitStatus_failure == "failure"

\* project.can_merge_pr(user)
can_merge_pr(user) == user \in mergers

\* mutant: the helper is built on every access
HelperAccess_M ==
    /\ helper' = "helper"
    /\ helper_built' = helper_built + 1
    /\ accesses' = accesses + 1

\* a read of the lazy property: the first one builds the helper
HelperAccess ==
    /\ helper' = IF helper = None THEN "helper" ELSE helper
    /\ helper_built' = IF helper = None THEN helper_built + 1
                       ELSE helper_built
    /\ accesses' = accesses + 1

\* TaskResults the build backend may return
BackendOutcomes ==
    {TaskResults(ok, Details({"msg"}, <<"backend">>, <<>>)) : ok \in BOOLEAN}

PermissionDenied ==
    TaskResults(TRUE, Details({"msg"}, <<PERMISSIONS_ERROR_WRITE_OR_ADMIN>>,
                              <<>>))

\* the job runner calls run() only when pre_check() answered True
PreCheckPassed == pc = "eligible"

\* CoprBuildHandler.__init__
CoprInit ==
    /\ handler = "copr"
    /\ pc = "new"
    /\ pc' = "constructed"
    /\ helper' = None
    /\ UNCHANGED <<handler, rerunVars, issues, outcome, raised, installVars, proposeVars,
                   event_type, user_login, admins, mergers, job_config, jobs,
                   helper_built, statuses, queries, builds,
                   backend_returned, accesses>>

\* the lambda is_copr_build of CoprBuildHandler.pre_check
CoprIsCoprBuild(job, jc) == job.type = "copr_build" /\ job.trigger = jc.trigger

\* mutant: all() instead of any()
CoprPreCheckResult_M(jc, js) ==
    IF jc.type = "tests" /\ (\A job \in js : CoprIsCoprBuild(job, jc))
    THEN FALSE
    ELSE TRUE

\* CoprBuildHandler.pre_check
CoprPreCheckResult(jc, js) ==
    IF jc.type = "tests" /\ (\E job \in js : CoprIsCoprBuild(job, jc))
    THEN FALSE
    ELSE TRUE

CoprPreCheck ==
    /\ handler = "copr"
    /\ pc = "constructed"
    /\ pc' = IF CoprPreCheckResult(job_config, jobs) THEN "eligible"
             ELSE "skipped"
    /\ UNCHANGED <<handler, rerunVars, issues, outcome, raised, installVars, proposeVars,
                   buildVars>>

\* mutant: merge requests are not gated
CoprGatedEvents_M == {PullRequestGithubEvent}

\* event types for which CoprBuildHandler.run asks can_merge_pr
CoprGatedEvents == {PullRequestGithubEvent, MergeRequestGitlabEvent}

\* url passed to report_status_to_all by CoprBuildHandler.run
CoprStatusUrl == FAQ_URL_HOW_TO_RETRIGGER

\* the rejection branch shared by both run() methods
Reject(url) ==
    /\ HelperAccess
    /\ statuses' = Append(statuses,
                          [description |-> PERMISSIONS_ERROR_WRITE_OR_ADMIN,
                           state |-> CommitStatus_failure,
                           url |-> url])
    /\ outcome' = <<PermissionDenied>>
    /\ builds' = builds
    /\ backend_returned' = backend_returned

\* mutant: the backend's result is replaced by a successful one
RunBuild_M ==
    /\ HelperAccess
    /\ builds' = builds + 1
    /\ \E res \in BackendOutcomes :
          /\ backend_returned' = Append(backend_returned, res)
          /\ outcome' = <<TaskResults(TRUE, res.details)>>
    /\ statuses' = statuses

\* return self.<helper>.run_<backend>_build()
RunBuild ==
    /\ HelperAccess
    /\ builds' = builds + 1
    /\ \E res \in BackendOutcomes :
          /\ backend_returned' = Append(backend_returned, res)
          /\ outcome' = <<res>>
    /\ statuses' = statuses

\* CoprBuildHandler.run
CoprRun ==
    /\ handler = "copr"
    /\ PreCheckPassed
    /\ IF event_type \in CoprGatedEvents
       THEN /\ queries' = Append(queries, user_login)
            /\ IF ~(can_merge_pr(user_login) \/ user_login \in admins)
               THEN Reject(CoprStatusUrl)
               ELSE RunBuild
       ELSE /\ queries' = queries
            /\ RunBuild
    /\ pc' = "done"
    /\ UNCHANGED <<handler, rerunVars, issues, raised, installVars, proposeVars,
                   event_type, user_login, admins, mergers, job_config, jobs>>

\* mutant: merge requests are accepted as well
KojiAcceptedEvents_M == {PullRequestGithubEvent, PushGitHubEvent, ReleaseEvent,
                         MergeRequestGitlabEvent}

\* event types KojiBuildHandler.__init__ accepts
KojiAcceptedEvents == {PullRequestGithubEvent, PushGitHubEvent, ReleaseEvent}

\* KojiBuildHandler.__init__
KojiInit ==
    /\ handler = "koji"
    /\ pc = "new"
    /\ IF event_type \notin KojiAcceptedEvents
       THEN /\ raised' = "PackitException"
            /\ pc' = "refused"
       ELSE /\ raised' = raised
            /\ pc' = "constructed"
    /\ helper' = None
    /\ UNCHANGED <<handler, rerunVars, issues, outcome, installVars, proposeVars,
                   event_type, user_login, admins, mergers, job_config, jobs,
                   helper_built, statuses, queries, builds,
                   backend_returned, accesses>>

\* the lambda is_copr_build of KojiBuildHandler.pre_check
KojiIsCoprBuild(job) == job.type = "copr_build"

\* mutant: the trigger is compared as in CoprBuildHandler.pre_check
KojiPreCheckResult_M(jc, js) ==
    IF jc.type = "tests" /\ (\E job \in js : CoprIsCoprBuild(job, jc))
    THEN FALSE
    ELSE TRUE

\* KojiBuildHandler.pre_check
KojiPreCheckResult(jc, js) ==
    IF jc.type = "tests" /\ (\E job \in js : KojiIsCoprBuild(job))
    THEN FALSE
    ELSE TRUE

KojiPreCheck ==
    /\ handler = "koji"
    /\ pc = "constructed"
    /\ pc' = IF KojiPreCheckResult(job_config, jobs) THEN "eligible"
             ELSE "skipped"
    /\ UNCHANGED <<handler, rerunVars, issues, outcome, raised, installVars, proposeVars,
                   buildVars>>

\* mutant: pushes are gated as well
KojiGatedEvents_M == {PullRequestGithubEvent, PushGitHubEvent}

\* event types for which KojiBuildHandler.run asks can_merge_pr
KojiGatedEvents == {PullRequestGithubEvent}

\* report_status_to_all is called without url by KojiBuildHandler.run
KojiStatusUrl == NoUrl

\* KojiBuildHandler.run
KojiRun ==
    /\ handler = "koji"
    /\ PreCheckPassed
    /\ IF event_type \in KojiGatedEvents
       THEN /\ queries' = Append(queries, user_login)
            /\ IF ~(can_merge_pr(user_login) \/ user_login \in admins)
               THEN Reject(KojiStatusUrl)
               ELSE RunBuild
       ELSE /\ queries' = queries
            /\ RunBuild
    /\ pc' = "done"
    /\ UNCHANGED <<handler, rerunVars, issues, raised, installVars, proposeVars,
                   event_type, user_login, admins, mergers, job_config, jobs>>

\* another read of copr_build_helper / koji_build_helper on the handler
HelperRead ==
    /\ handler \in {"copr", "koji"}
    /\ pc \in {"constructed", "eligible", "skipped", "done"}
    /\ accesses - builds - Len(statuses) < MaxAccesses
    /\ HelperAccess
    /\ UNCHANGED <<handler, rerunVars, pc, issues, outcome, raised, installVars,
                   proposeVars, event_type, user_login, admins, mergers,
                   job_config, jobs, statuses, queries, builds,
                   backend_returned>>

----------------------------------------------------------------------------
(* Specifications *)

Next ==
    \/ InstallationRun
    \/ ProposeStart
    \/ ProposeLoop
    \/ ProposeAggregate
    \/ ProposeRedispatch
    \/ CoprInit
    \/ CoprPreCheck
    \/ CoprRun
    \/ KojiInit
    \/ KojiPreCheck
    \/ KojiRun
    \/ HelperRead

Spec == Init /\ [][Next]_vars

\* The propose-downstream unit of work alone, with the scheduling the task
\* queue provides: a worker that holds a task runs it to its end, and the
\* queue delivers every task it was handed.
InitProposeFair ==
    /\ InitPropose
    /\ Cardinality(dist_git_branches) <= MaxFairBranches

NextPropose ==
    \/ ProposeStart
    \/ ProposeLoop
    \/ ProposeAggregate
    \/ ProposeRedispatch

\* The propose-downstream task with what earlier attempts did kept on record
InitHistory ==
    /\ InitPropose
    /\ Cardinality(dist_git_branches) <= MaxHistBranches

NextHistory ==
    \/ ProposeStart
    \/ ProposeLoop
    \/ ProposeAggregate
    \/ ProposeRedispatchRecorded

HistorySpec == InitHistory /\ [][NextHistory]_vars

\* The same event and job run twice against a backend whose answer per
\* branch is fixed; each run iterates the set of branches in its own order.
InitRerun ==
    /\ handler = "propose"
    /\ pc = "Pending"
    /\ issues = <<>>
    /\ outcome = <<>>
    /\ raised = "none"
    /\ IdleInstall /\ IdleBuild
    /\ dist_git_branches \in
           {bs \in SUBSET BranchPool : Cardinality(bs) <= MaxBranches}
    /\ tag_name \in Tags
    /\ todo = {}
    /\ errors = <<>>
    /\ retries \in 0..RETRY_LIMIT
    /\ scheduled = [i \in 1..retries |->
                       [exc |-> FILE_DOWNLOAD_FAILURE,
                        countdown |-> Countdown(i - 1)]]
    /\ sentry = <<>>
    /\ calls = <<>>
    /\ earlier = {}
    /\ responses \in [get_branches(dist_git_branches) -> SyncResults]
    /\ first_run = <<>>

\* an iteration of the for loop in which sync_release answers as fixed
RerunLoop ==
    /\ ProposeLoop
    /\ calls'[Len(calls')].res = responses[calls'[Len(calls')].branch]

\* the first run is over: the same task is run again, from the same state
Rerun ==
    /\ handler = "propose"
    /\ pc \in {"Succeeded", "Failed", "AwaitingRetry"}
    /\ first_run = <<>>
    /\ first_run' = <<[issues |-> issues, outcome |-> outcome,
                       raised |-> raised]>>
    /\ pc' = "Pending"
    /\ outcome' = <<>>
    /\ raised' = "none"
    /\ scheduled' = SubSeq(scheduled, 1, retries)
    /\ errors' = <<>>
    /\ todo' = {}
    /\ calls' = <<>>
    /\ UNCHANGED <<handler, issues, responses, installVars, dist_git_branches,
                   tag_name, retries, sentry, earlier, buildVars>>

NextRerun ==
    \/ ProposeStart
    \/ RerunLoop
    \/ ProposeAggregate
    \/ Rerun

RerunSpec == InitRerun /\ [][NextRerun]_vars

FairSpec ==
    /\ InitProposeFair
    /\ [][NextPropose]_vars
    /\ WF_vars(ProposeStart)
    /\ WF_vars(ProposeLoop)
    /\ WF_vars(ProposeAggregate)
    /\ WF_vars(ProposeRedispatch)

----------------------------------------------------------------------------
(* Properties *)

Unprivileged == user_login \notin mergers /\ user_login \notin admins

RejectionReported ==
    /\ Len(statuses) = 1
    /\ statuses[1].description = PERMISSIONS_ERROR_WRITE_OR_ADMIN
    /\ statuses[1].state = "failure"
    /\ Len(outcome) = 1
    /\ outcome[1].success
    /\ outcome[1].details.msg = <<PERMISSIONS_ERROR_WRITE_OR_ADMIN>>

\* C1 as stated: for every event whose actor can neither merge nor is an
\* admin, the build handlers never invoke the backend build, and once run()
\* is over they have reported the rejection and returned success=True with
\* the rejection message.
C1_Original ==
    (handler \in {"copr", "koji"} /\ Unprivileged)
        => /\ builds = 0
           /\ pc = "done" => RejectionReported

PullRequestEventOf(h) ==
    \/ h = "copr" /\ event_type \in {"PullRequestGithubEvent",
                                     "MergeRequestGitlabEvent"}
    \/ h = "koji" /\ event_type = "PullRequestGithubEvent"

\* C1 amended: for every pull-request event (PullRequestGithubEvent or
\* MergeRequestGitlabEvent for CoprBuildHandler, PullRequestGithubEvent for
\* KojiBuildHandler) whose actor can neither merge nor is an admin, the build
\* handlers never invoke the backend build, and once run() is over they have
\* reported the rejection (fixed message, state failure) and returned
\* success=True with that message.
C1_GateRejects ==
    (PullRequestEventOf(handler) /\ Unprivileged)
        => /\ builds = 0
           /\ pc = "done" => RejectionReported

C1_Witness ==
    /\ handler = "koji"
    /\ pc = "done"
    /\ event_type = "PullRequestGithubEvent"
    /\ Unprivileged
    /\ Len(statuses) = 1

\* the step is one iteration of the for loop in which sync_release raised
FailedSync ==
    /\ handler = "propose"
    /\ pc = "Running"
    /\ Len(calls') = Len(calls) + 1
    /\ ~calls'[Len(calls')].res.ok

LastBranch == calls'[Len(calls')].branch
LastMsg == calls'[Len(calls')].res.msg
Transient(msg) == Contains(msg, FILE_DOWNLOAD_FAILURE)
Recorded(d, b, m) == \E i \in 1..Len(d) : d[i] = <<b, m>>

\* C2: when sync_release fails with a text containing FILE_DOWNLOAD_FAILURE
\* and the retry count is k < RETRY_LIMIT, exactly one re-dispatch is
\* scheduled, with countdown 15 * 2^k, and the attempt is over; when
\* k = RETRY_LIMIT nothing is scheduled and the error is recorded in the error
\* map under that branch.
C2_RetryBackoff ==
    [][(FailedSync /\ Transient(LastMsg)) =>
          /\ retries < RETRY_LIMIT =>
                /\ scheduled' = Append(scheduled,
                                       [exc |-> LastMsg,
                                        countdown |-> 15 * 2 ^ retries])
                /\ pc' = "AwaitingRetry"
                /\ Len(scheduled') = retries + 1
          /\ retries = RETRY_LIMIT =>
                /\ scheduled' = scheduled
                /\ Recorded(errors', LastBranch, LastMsg)
                /\ pc' = "Running"]_vars

C2_Witness ==
    /\ handler = "propose"
    /\ pc = "Running"
    /\ retries = RETRY_LIMIT
    /\ Len(scheduled) = RETRY_LIMIT
    /\ scheduled[1].countdown = 15
    /\ scheduled[2].countdown = 30
    /\ \E i \in 1..Len(errors) : Transient(errors[i][2])

CalledBranches == {calls[i].branch : i \in 1..Len(calls)}
AttemptOver == pc \in {"AwaitingRetry", "Succeeded", "Failed"}

\* C3 as stated: in every invocation, once it is over, sync_release has been
\* attempted on every configured branch, whatever failed on the others.
C3_Original ==
    (handler = "propose" /\ AttemptOver)
        => CalledBranches = get_branches(dist_git_branches)

\* C3 amended: a failure of sync_release that does not schedule a retry (any
\* non-transient failure, or a transient one at retries = RETRY_LIMIT) never
\* prevents sync_release from being attempted on the remaining branches: the
\* loop goes on with exactly the branches not yet called, and an invocation
\* that returns an Outcome has called sync_release on every configured
\* branch.  Only a failure that schedules a retry ends the invocation early.
C3_LoopContinues ==
    handler = "propose" =>
        /\ pc = "Running" =>
               todo = get_branches(dist_git_branches) \ CalledBranches
        /\ pc \in {"Succeeded", "Failed"} =>
               CalledBranches = get_branches(dist_git_branches)
        /\ (pc = "AwaitingRetry" /\ todo # {}) =>
               /\ Transient(calls[Len(calls)].res.msg)
               /\ retries < RETRY_LIMIT

C3_Witness ==
    /\ handler = "propose"
    /\ pc = "Failed"
    /\ Len(calls) = 3
    /\ ~calls[1].res.ok
    /\ ~Transient(calls[1].res.msg)
    /\ calls[3].res.ok

FailedBranches == {calls[i].branch : i \in {j \in 1..Len(calls) : ~calls[j].res.ok}}
MsgOf(b) == calls[CHOOSE i \in 1..Len(calls) : calls[i].branch = b].res.msg

\* code point order of two names, stated without recursion
LexBefore(a, b) ==
    \E k \in 1..(Len(b)) :
        /\ \A j \in 1..(k - 1) : j <= Len(a) /\ a[j] = b[j]
        /\ \/ k = Len(a) + 1
           \/ k <= Len(a) /\ a[k] < b[k]

\* text t is text m with every newline replaced by a blank
NewlinesReplaced(t, m) ==
    /\ Len(t) = Len(m)
    /\ \A i \in 1..Len(m) : t[i] = (IF m[i] = "\n" THEN " " ELSE m[i])
    /\ \A i \in 1..Len(t) : t[i] # "\n"

\* C4: when run() is through its loop: if a branch failed, exactly one issue
\* exists; its table has one row per failed branch, sorted by branch name,
\* with the error text free of newlines; the Outcome has success=False and an
\* error map with exactly the failed branches and their texts; a branch that
\* succeeded has no row and no entry; if no branch failed there is no issue
\* and the Outcome has success=True.
C4_Aggregation ==
    (handler = "propose" /\ pc \in {"Succeeded", "Failed"}) =>
        /\ Len(outcome) = 1
        /\ IF FailedBranches # {}
           THEN /\ pc = "Failed"
                /\ Len(issues) = 1
                /\ LET rows == issues[1].body.rows
                       errs == outcome[1].details.errors
                   IN /\ Len(rows) = Cardinality(FailedBranches)
                      /\ {rows[i][1] : i \in 1..Len(rows)} = FailedBranches
                      /\ \A i \in 1..Len(rows) : \A j \in 1..Len(rows) :
                             i < j => LexBefore(rows[i][1], rows[j][1])
                      /\ \A i \in 1..Len(rows) :
                             NewlinesReplaced(rows[i][2], MsgOf(rows[i][1]))
                      /\ ~outcome[1].success
                      /\ Len(errs) = Cardinality(FailedBranches)
                      /\ {errs[i][1] : i \in 1..Len(errs)} = FailedBranches
                      /\ \A i \in 1..Len(errs) : errs[i][2] = MsgOf(errs[i][1])
           ELSE /\ pc = "Succeeded"
                /\ issues = <<>>
                /\ outcome[1].success
                /\ outcome[1].details.errors = <<>>

C4_Witness ==
    /\ handler = "propose"
    /\ pc = "Failed"
    /\ Len(errors) = 2
    /\ Len(calls) = 3
    /\ LexBefore(errors[2][1], errors[1][1])
    /\ \E i \in 1..Len(errors[1][2]) : errors[1][2][i] = "\n"
    /\ issues[1].body.rows[1][1] = errors[2][1]

\* C5: a sync_release failure whose text does not contain
\* FILE_DOWNLOAD_FAILURE never calls task.retry, at any retry count: the error
\* is recorded under its branch, the loop goes on, and no branch is called
\* twice in an invocation; every re-dispatch ever scheduled carries a text
\* that contains FILE_DOWNLOAD_FAILURE.
C5_OnlyTransientRetries ==
    [][/\ (FailedSync /\ ~Transient(LastMsg)) =>
              /\ scheduled' = scheduled
              /\ raised' = "none"
              /\ pc' = "Running"
              /\ Recorded(errors', LastBranch, LastMsg)
              /\ LastBranch \notin todo'
       /\ \A i \in 1..Len(calls') : \A j \in 1..Len(calls') :
              i # j => calls'[i].branch # calls'[j].branch
       /\ \A i \in 1..Len(scheduled') : Transient(scheduled'[i].exc)]_vars

C5_Witness ==
    /\ handler = "propose"
    /\ pc = "Running"
    /\ retries = 1
    /\ Len(errors) = 1
    /\ errors[1][2] = <<"F", "\n", "D">>
    /\ Len(scheduled) = 1
    /\ todo # {}

ProposeStates == {"Pending", "Running", "Succeeded", "Failed", "AwaitingRetry"}

ProposeTransition ==
    \/ pc = "Pending" /\ pc' = "Running"
    \/ pc = "Running" /\ pc' \in {"Running", "Succeeded", "Failed",
                                  "AwaitingRetry"}
    \/ pc = "AwaitingRetry" /\ pc' = "Running"

\* C6: a propose-downstream unit of work moves Pending -> Running ->
\* {Succeeded, Failed, AwaitingRetry} (and from AwaitingRetry back to Running
\* when re-dispatched); it is re-dispatched at most RETRY_LIMIT times; it
\* always reaches Succeeded or Failed; and an attempt at retries = RETRY_LIMIT
\* that recorded an error ends in Failed with the error map in its Outcome
\* and exactly one issue.
C6_Terminates ==
    /\ [](handler = "propose" => pc \in ProposeStates)
    /\ [][(handler = "propose" /\ pc' # pc) => ProposeTransition]_vars
    /\ [](Len(scheduled) <= RETRY_LIMIT /\ retries <= RETRY_LIMIT)
    /\ [](handler = "propose" /\ pc = "Failed" =>
            /\ Len(issues) = 1
            /\ Len(outcome) = 1
            /\ ~outcome[1].success
            /\ outcome[1].details.errors = errors
            /\ errors # <<>>)
    /\ (handler = "propose") ~> (pc \in {"Succeeded", "Failed"})
    /\ (handler = "propose" /\ retries = RETRY_LIMIT /\ errors # <<>>)
           ~> (pc = "Failed")

C6_Witness ==
    /\ handler = "propose"
    /\ pc = "Failed"
    /\ retries = RETRY_LIMIT
    /\ Len(scheduled) = RETRY_LIMIT
    /\ \A i \in 1..Len(errors) : Transient(errors[i][2])
    /\ Len(errors) = Cardinality(get_branches(dist_git_branches))

PreCheckAnswered == pc \in {"eligible", "skipped", "done"}

C8_RejectionHasLink ==
    handler \in {"copr", "koji"} =>
        \A i \in 1..Len(statuses) :
            /\ statuses[i].description = PERMISSIONS_ERROR_WRITE_OR_ADMIN
            /\ statuses[i].state = "failure"
            /\ statuses[i].url # ""

\* C9: GithubAppInstallationHandler.run returns success=True; when
\* add_account(account_login, sender_login) answers false it creates exactly
\* one issue, titled "<account_type> <account_login> needs to be approved.",
\* and returns "<account_type> <account_login> needs to be approved
\* manually!"; when add_account answers true it creates no issue and returns
\* another message.
C9_Installation ==
    (handler = "installation" /\ pc = "done") =>
        LET call == add_account_calls[1]
            manual == <<installation.account_type, " ",
                        installation.account_login,
                        " needs to be approved manually!">>
        IN /\ Len(add_account_calls) = 1
           /\ call.account = installation.account_login
           /\ call.sender = installation.sender_login
           /\ Len(outcome) = 1
           /\ outcome[1].success
           /\ ~call.result =>
                 /\ Len(issues) = 1
                 /\ issues[1].title = <<installation.account_type, " ",
                                        installation.account_login,
                                        " needs to be approved.">>
                 /\ outcome[1].details.msg = manual
           /\ call.result =>
                 /\ issues = <<>>
                 /\ outcome[1].details.msg # manual

C9_Witness ==
    /\ handler = "installation"
    /\ pc = "done"
    /\ ~add_account_calls[1].result
    /\ installation.account_type = "Organization"
    /\ installation.account_login = "acme"
    /\ Len(issues) = 1

\* C10 as stated: an exception raised by sync_release never leaves run(): no
\* exception has left the handler, and every failed call of the invocation is
\* in the error map under its branch and was sent to sentry.
C10_Original ==
    handler = "propose" =>
        /\ raised = "none"
        /\ \A i \in 1..Len(calls) :
               ~calls[i].res.ok =>
                   /\ Recorded(errors, calls[i].branch, calls[i].res.msg)
                   /\ \E j \in 1..Len(sentry) : sentry[j] = calls[i].res.msg

\* C10 amended: an exception raised by sync_release for a branch is caught
\* for that branch; unless its text contains FILE_DOWNLOAD_FAILURE while
\* retries < RETRY_LIMIT, nothing leaves run(), the exception is sent to
\* sentry and stored in the error map under that branch, and a run() that
\* gets through its loop returns an Outcome.  In the excepted case task.retry
\* is called and its Retry exception leaves run(): nothing is sent to sentry
\* or stored for that branch and no Outcome is returned.
C10_ExceptionsFolded ==
    [][/\ FailedSync =>
              IF Transient(LastMsg) /\ retries < RETRY_LIMIT
              THEN /\ raised' = "Retry"
                   /\ sentry' = sentry
                   /\ errors' = errors
                   /\ outcome' = <<>>
                   /\ pc' = "AwaitingRetry"
              ELSE /\ raised' = "none"
                   /\ sentry' = Append(sentry, LastMsg)
                   /\ Len(errors') = Len(errors) + 1
                   /\ errors'[Len(errors')] = <<LastBranch, LastMsg>>
                   /\ pc' = "Running"
       /\ (handler = "propose" /\ pc' \in {"Succeeded", "Failed"}) =>
              /\ Len(outcome') = 1
              /\ raised' = "none"
              /\ Len(errors') = Cardinality(FailedBranches')]_vars

C10_Witness ==
    /\ handler = "propose"
    /\ pc = "Failed"
    /\ Len(calls) = 2
    /\ ~calls[1].res.ok
    /\ ~calls[2].res.ok
    /\ Len(sentry) = 2
    /\ Len(errors) = 2
    /\ retries = 0


\* C11: KojiBuildHandler is constructed exactly for PullRequestGithubEvent,
\* PushGitHubEvent and ReleaseEvent; for any other event type the constructor
\* raises PackitException and the handler never asks can_merge_pr, reports a
\* status, builds or returns an Outcome.
C11_KojiConstruction ==
    (handler = "koji" /\ pc # "new") =>
        IF event_type \in {"PullRequestGithubEvent", "PushGitHubEvent",
                           "ReleaseEvent"}
        THEN /\ pc # "refused"
             /\ raised = "none"
        ELSE /\ pc = "refused"
             /\ raised = "PackitException"
             /\ queries = <<>>
             /\ statuses = <<>>
             /\ builds = 0
             /\ helper_built = 0
             /\ outcome = <<>>

C11_Witness ==
    /\ handler = "koji"
    /\ pc = "refused"
    /\ event_type = "MergeRequestGitlabEvent"
    /\ raised = "PackitException"

HasCoprBuild == \E job \in jobs : job.type = "copr_build"
HasCoprBuildSameTrigger ==
    \E job \in jobs : /\ job.type = "copr_build"
                      /\ job.trigger = job_config.trigger

GatedFor(h) ==
    \/ h = "copr" /\ event_type \in {"PullRequestGithubEvent",
                                     "MergeRequestGitlabEvent"}
    \/ h = "koji" /\ event_type = "PullRequestGithubEvent"

\* C19: run() asks can_merge_pr once for the pull-request event types
\* (PullRequestGithubEvent and MergeRequestGitlabEvent for CoprBuildHandler,
\* PullRequestGithubEvent for KojiBuildHandler) and never for another event
\* type: there the backend build is invoked, with no query and no rejection
\* status, whoever the actor is.
C19_GateOnlyPullRequests ==
    (handler \in {"copr", "koji"}) =>
        /\ ~GatedFor(handler) => queries = <<>>
        /\ pc = "done" =>
              IF GatedFor(handler)
              THEN queries = <<user_login>>
              ELSE /\ builds = 1
                   /\ statuses = <<>>
                   /\ Len(outcome) = 1
                   /\ outcome[1] \in BackendOutcomes

C19_Witness ==
    /\ handler = "koji"
    /\ pc = "done"
    /\ event_type = "PushGitHubEvent"
    /\ Unprivileged
    /\ builds = 1
    /\ queries = <<>>


\* C15: over any sequence of reads of copr_build_helper / koji_build_helper
\* on one handler (the read for the rejection status and the read for the
\* build included), the helper is built by the first read and never again:
\* every later read returns the helper already stored.
C15_HelperBuiltOnce ==
    [][(handler \in {"copr", "koji"}) =>
          /\ helper_built' <= 1
          /\ accesses' = 0 => (helper_built' = 0 /\ helper' = "None")
          /\ accesses' >= 1 => (helper_built' = 1 /\ helper' # "None")
          /\ (accesses' > accesses /\ accesses >= 1) =>
                (helper' = helper /\ helper_built' = helper_built)]_vars

C15_Witness ==
    /\ handler = "koji"
    /\ pc = "done"
    /\ Len(statuses) = 1
    /\ accesses = 2
    /\ helper_built = 1

Privileged == user_login \in mergers \/ user_login \in admins

\* C20: for a pull-request event whose actor can merge or is an admin, run()
\* invokes the backend build exactly once, posts no status and returns what
\* the backend returned, success or failure.
C20_PrivilegedBuilds ==
    (/\ handler \in {"copr", "koji"}
     /\ GatedFor(handler)
     /\ Privileged
     /\ pc = "done")
        => /\ builds = 1
           /\ statuses = <<>>
           /\ Len(backend_returned) = 1
           /\ outcome = backend_returned
           /\ queries = <<user_login>>

C20_Witness ==
    /\ handler = "copr"
    /\ pc = "done"
    /\ event_type = "MergeRequestGitlabEvent"
    /\ user_login \notin mergers
    /\ user_login \in admins
    /\ builds = 1
    /\ ~outcome[1].success


\* the step is the one in which task.retry was called
RetryScheduled == handler = "propose" /\ Len(scheduled') > Len(scheduled)

\* C16: the step that schedules a retry ends the execution: the failing
\* branch is not put in the error map, nothing is sent to sentry, no issue is
\* created and no Outcome is returned; until the re-dispatch nothing more
\* happens in that attempt.
C16_RetryEndsAttempt ==
    [][/\ RetryScheduled =>
              /\ pc' = "AwaitingRetry"
              /\ raised' = "Retry"
              /\ errors' = errors
              /\ \A i \in 1..Len(errors') : errors'[i][1] # LastBranch
              /\ sentry' = sentry
              /\ issues' = issues
              /\ outcome' = <<>>
       /\ (handler = "propose" /\ pc = "AwaitingRetry") =>
              /\ pc' = "Running"
              /\ calls' = <<>>
              /\ issues' = issues
              /\ outcome' = <<>>
              /\ sentry' = sentry]_vars

C16_Witness ==
    /\ handler = "propose"
    /\ pc = "AwaitingRetry"
    /\ retries = 0
    /\ Len(calls) = 2
    /\ Len(errors) = 1
    /\ Len(sentry) = 1
    /\ todo # {}
    /\ outcome = <<>>
    /\ issues = <<>>

\* C18: attempts of one unit of work never overlap: while a scheduled
\* re-dispatch is not yet delivered the attempt that scheduled it has stopped,
\* a re-dispatch starts only from there, at most one is outstanding, and within
\* an attempt sync_release is called at most once per branch.
C18_NoOverlap ==
    /\ [](handler = "propose" =>
            /\ Len(scheduled) > retries => pc = "AwaitingRetry"
            /\ pc \in {"Running", "Succeeded", "Failed"} =>
                   Len(scheduled) = retries
            /\ Len(scheduled) <= retries + 1
            /\ \A i \in 1..Len(calls) : \A j \in 1..Len(calls) :
                   i # j => calls[i].branch # calls[j].branch)
    /\ [][(handler = "propose" /\ retries' # retries) =>
             /\ pc = "AwaitingRetry"
             /\ pc' = "Running"
             /\ retries' = retries + 1
             /\ calls' = <<>>]_vars

C18_Witness ==
    /\ handler = "propose"
    /\ pc = "Running"
    /\ retries = 1
    /\ Len(scheduled) = 1
    /\ Len(calls) = 2
    /\ raised = "none"


FailedCalls ==
    {<<calls[i].branch, calls[i].res.msg>> :
        i \in {j \in 1..Len(calls) : ~calls[j].res.ok}}
AsMapping(d) == {d[i] : i \in 1..Len(d)}

\* C13: an invocation has at most one Outcome and one issue, and an attempt
\* that ended in a retry has none; the error map and the issue of the final
\* attempt hold exactly the failures of that attempt: an error recorded in an
\* earlier attempt, for a branch that did not fail in the final one, is in no
\* Outcome and no issue.
C13_RetryReplaces ==
    handler = "propose" =>
        /\ Len(outcome) <= 1
        /\ Len(issues) <= 1
        /\ pc \in {"Pending", "Running", "AwaitingRetry"} =>
               (outcome = <<>> /\ issues = <<>>)
        /\ pc \in {"Succeeded", "Failed"} =>
               /\ Len(outcome) = 1
               /\ AsMapping(outcome[1].details.errors) = FailedCalls
               /\ \A e \in earlier :
                      (~e.res.ok /\ e.branch \notin FailedBranches) =>
                          /\ \A i \in 1..Len(outcome[1].details.errors) :
                                 outcome[1].details.errors[i][1] # e.branch
                          /\ \A k \in 1..Len(issues) :
                                 \A i \in 1..Len(issues[k].body.rows) :
                                     issues[k].body.rows[i][1] # e.branch

C13_Witness ==
    /\ handler = "propose"
    /\ pc = "Failed"
    /\ retries = 1
    /\ Len(errors) = 1
    /\ \E e \in earlier : ~e.res.ok /\ e.branch \notin FailedBranches

\* C17: a re-dispatched attempt starts the loop over: it begins with every
\* configured branch still to call, so sync_release is called again on every
\* branch, those that succeeded in an earlier attempt included.
C17_RetryRunsAllBranches ==
    [][handler = "propose" =>
          /\ retries' # retries =>
                /\ todo' = get_branches(dist_git_branches)
                /\ calls' = <<>>
          /\ (retries' >= 1 /\ pc' = "Running") =>
                \A e \in earlier' :
                    e.branch \in (todo' \cup {calls'[i].branch :
                                                i \in 1..Len(calls')})
          /\ (retries' >= 1 /\ pc' \in {"Succeeded", "Failed"}) =>
                \A e \in earlier' :
                    e.branch \in {calls'[i].branch : i \in 1..Len(calls')}]_vars

C17_Witness ==
    /\ handler = "propose"
    /\ pc = "Succeeded"
    /\ retries = 1
    /\ \E e \in earlier : e.res.ok /\ e.branch \in CalledBranches
    /\ Cardinality(get_branches(dist_git_branches)) = 2


\* two TaskResults are equal as Python dicts: same keys, same values, the
\* errors dict compared as a mapping
SameOutcome(a, b) ==
    /\ Len(a) = Len(b)
    /\ \A i \in 1..Len(a) :
           /\ a[i].success = b[i].success
           /\ a[i].details.keys = b[i].details.keys
           /\ a[i].details.msg = b[i].details.msg
           /\ AsMapping(a[i].details.errors) = AsMapping(b[i].details.errors)
           /\ Len(a[i].details.errors) = Len(b[i].details.errors)

SecondRunOver ==
    /\ handler = "propose"
    /\ first_run # <<>>
    /\ pc \in {"Succeeded", "Failed", "AwaitingRetry"}

\* C14: run() repeated for the same event and job, with the same answer of
\* sync_release per branch, creates the same issue (title and body) and
\* returns an equal Outcome, whatever the order in which each run iterated the
\* branches.
C14_RerunIdentical ==
    SecondRunOver =>
        LET before == first_run[1]
            created == SubSeq(issues, Len(before.issues) + 1, Len(issues))
        IN /\ created = before.issues
           /\ SameOutcome(outcome, before.outcome)
           /\ raised = before.raised

C14_Witness ==
    /\ SecondRunOver
    /\ pc = "Failed"
    /\ Len(issues) = 2
    /\ Len(errors) = 2
    /\ Len(calls) = 3
    /\ first_run[1].outcome[1].details.errors # errors

====
